---- MODULE Spec2Model ----
(***************************************************************************)
(* A model of src/src/lib.rs: a doubly linked list of reference-counted    *)
(* nodes (Rc<Node>) whose prev/next links live in RefCells, the bulk       *)
(* constructor doubly_linked_list!, the iterators handed out by iter() and *)
(* rev_iter(), Node::last and the two Debug implementations.               *)
(***************************************************************************)
EXTENDS Integers, Sequences, FiniteSets, TLC

\* Longest argument list given to doubly_linked_list!.
MaxLen == 3
\* Number of NodeIterator values created over the list.
MaxIters == 3
\* Number of NodeIterator values created over a list that is also rendered.
MaxFmtIters == 1

\* The elements a list is built from (T = &str in the tests).
Alphabet == <<"a", "b", "c", "d", "e">>

\* Option::None for an Option<Rc<Node>>; nodes are numbered from 1.
None == 0

NodeIds == 1..MaxLen
Iters == 1..MaxIters

\* The argument lists the macro accepts: `$($element:expr), +` is one or more.
\* Of each length the list of distinct elements, and a list of two equal ones.
Inputs == {[k \in 1..n |-> Alphabet[k]] : n \in 1..MaxLen}
          \cup {<<Alphabet[1], Alphabet[1]>>}

VARIABLES
    input,    \* the elements given to doubly_linked_list!
    built,    \* whether the macro has run
    heap,     \* the live Node allocations: id -> [prev, value, next]
    root,     \* DoublyLinkedList.root
    iters,    \* the NodeIterator values: [live, node, reverse]
    yielded,  \* per iterator, the values its next() calls returned as Some
    ended,    \* per iterator, whether a next() call has returned None
    ret,      \* what the latest Node::last or Debug::fmt call returned
    rendering, \* the Debug::fmt call in progress, stopped inside a call it made
    dropped   \* what has been dropped: the list, and which iterators

vars == <<input, built, heap, root, iters, yielded, ended, ret, rendering,
          dropped>>

----------------------------------------------------------------------------
(* Rc: a node is freed when its strong count reaches zero, and freeing it  *)
(* drops its own prev and next handles.                                    *)

\* Rc::strong_count of node n: the handles held by the list's root, by the
\* links of live nodes and by iterators.
StrongCount(h, n, rt, its) ==
    (IF rt = n THEN 1 ELSE 0)
    + Cardinality({m \in DOMAIN h : h[m].next = n})
    + Cardinality({m \in DOMAIN h : h[m].prev = n})
    + Cardinality({i \in DOMAIN its : its[i].node = n})

RECURSIVE Reclaim(_, _, _)
\* The heap once every node with no strong handle left has been dropped.
Reclaim(h, rt, its) ==
    LET dead == {n \in DOMAIN h : StrongCount(h, n, rt, its) = 0}
    IN  IF dead = {} THEN h
        ELSE Reclaim([n \in (DOMAIN h) \ dead |-> h[n]], rt, its)

----------------------------------------------------------------------------
(* doubly_linked_list!                                                     *)

\* One repetition of the macro body for the k-th element: st holds the
\* macro's locals root and ptr and the heap.
MacroElement(st, k, element) ==
    LET current == k
        h1 == [n \in (DOMAIN st.heap) \cup {current} |->
                 IF n = current
                 THEN [prev |-> st.ptr, value |-> element, next |-> None]
                 ELSE st.heap[n]]
        h2 == IF st.ptr # None
              THEN [h1 EXCEPT ![st.ptr].next = current]
              ELSE h1
        root2 == IF st.ptr # None /\ st.root = None THEN st.ptr ELSE st.root
    IN  [root |-> root2, ptr |-> current, heap |-> h2]

RECURSIVE MacroUnroll(_, _)
\* The macro's locals after the repetitions for elements 1..k of S.
MacroUnroll(S, k) ==
    IF k = 0
    THEN [root |-> None, ptr |-> None, heap |-> <<>>]
    ELSE MacroElement(MacroUnroll(S, k - 1), k, S[k])

NoIters == [i \in Iters |-> [live |-> FALSE, node |-> None, reverse |-> FALSE]]

\* The whole macro: the repetitions, drop(ptr) and the end of the block,
\* where `current` goes out of scope; only the list's root handle remains.
doubly_linked_list(S) ==
    LET st == MacroUnroll(S, Len(S))
    IN  [root |-> st.root, heap |-> Reclaim(st.heap, st.root, NoIters)]

----------------------------------------------------------------------------
(* Node::last                                                              *)

\* Node::last with `if let` for `while let`: one step and no more.
LastWalk_oneStep(h, node) ==
    LET next == h[node].next
        h1 == [h EXCEPT ![node].next = None]
    IN  IF next # None
        THEN [heap |-> [h1 EXCEPT ![node].next = next], node |-> next]
        ELSE [heap |-> h1, node |-> node]

RECURSIVE LastWalk_noRestore(_, _)
\* Node::last without the write-back of the next link it took.
LastWalk_noRestore(h, node) ==
    LET next == h[node].next
        h1 == [h EXCEPT ![node].next = None]
    IN  IF next # None
        THEN LastWalk_noRestore(h1, next)
        ELSE [heap |-> h1, node |-> node]

RECURSIVE LastWalk(_, _)
\* The while loop of Node::last: take node.next, write it back, step on.
LastWalk(h, node) ==
    LET next == h[node].next
        h1 == [h EXCEPT ![node].next = None]
    IN  IF next # None
        THEN LastWalk([h1 EXCEPT ![node].next = next], next)
        ELSE [heap |-> h1, node |-> node]

\* Node::last(root): the heap after the walk and the node returned.
Node_last(h, start) == LastWalk(h, start)

----------------------------------------------------------------------------
(* DoublyLinkedList::iter / rev_iter                                       *)

\* iter() without the write-back of the root it took.
List_iter_rootLost(h, rt) ==
    LET taken == rt
    IN  [heap |-> h, root |-> None,
         it |-> [live |-> TRUE, node |-> taken, reverse |-> FALSE]]

\* iter(): take the root, write it back if there is one, anchor at it.
List_iter(h, rt) ==
    LET taken == rt
    IN  IF taken # None
        THEN [heap |-> h, root |-> taken,
              it |-> [live |-> TRUE, node |-> taken, reverse |-> FALSE]]
        ELSE [heap |-> h, root |-> None,
              it |-> [live |-> TRUE, node |-> None, reverse |-> FALSE]]

\* rev_iter(): take the root, find the tail with Node::last, write the root
\* back, anchor at the tail.
List_rev_iter(h, rt) ==
    LET taken == rt
    IN  IF taken # None
        THEN LET l == Node_last(h, taken)
             IN  [heap |-> l.heap, root |-> taken,
                  it |-> [live |-> TRUE, node |-> l.node, reverse |-> TRUE]]
        ELSE [heap |-> h, root |-> None,
              it |-> [live |-> TRUE, node |-> None, reverse |-> TRUE]]

----------------------------------------------------------------------------
(* NodeIterator::next                                                      *)

\* iterate_in_direction! without the write-back of the link it took.
iterate_in_direction_noRestore(h, self, key) ==
    LET node == self.node
    IN  IF node # None
        THEN [heap |-> [h EXCEPT ![node][key] = None],
              self |-> [self EXCEPT !.node = h[node][key]],
              some |-> TRUE, val |-> h[node].value, wrote |-> {key}]
        ELSE [heap |-> h, self |-> [self EXCEPT !.node = None],
              some |-> FALSE, val |-> "", wrote |-> {}]

\* iterate_in_direction! reading the cursor in place of taking it, and
\* returning None where the link is absent: the cursor stays on the node.
iterate_in_direction_peek(h, self, key) ==
    LET node == self.node
    IN  IF node # None /\ h[node][key] # None
        THEN [heap |-> h, self |-> [self EXCEPT !.node = h[node][key]],
              some |-> TRUE, val |-> h[node].value, wrote |-> {}]
        ELSE [heap |-> h, self |-> self, some |-> FALSE, val |-> "",
              wrote |-> {}]

\* iterate_in_direction! returning a default value for an empty cursor.
iterate_in_direction_default(h, self, key) ==
    LET node == self.node
    IN  IF node # None
        THEN [heap |-> h, self |-> [self EXCEPT !.node = h[node][key]],
              some |-> TRUE, val |-> h[node].value, wrote |-> {key}]
        ELSE [heap |-> h, self |-> [self EXCEPT !.node = None],
              some |-> TRUE, val |-> "", wrote |-> {}]

\* iterate_in_direction! writing the link it took back into the field
\* named next, whatever the direction.
iterate_in_direction_restoreNext(h, self, key) ==
    LET node == self.node
    IN  IF node # None
        THEN LET value == h[node][key]
                 h1 == [h EXCEPT ![node][key] = None]
                 h2 == IF value # None
                       THEN [h1 EXCEPT ![node].next = value]
                       ELSE h1
             IN  [heap |-> h2, self |-> [self EXCEPT !.node = value],
                  some |-> TRUE, val |-> h[node].value,
                  wrote |-> {key, "next"}]
        ELSE [heap |-> h, self |-> [self EXCEPT !.node = None],
              some |-> FALSE, val |-> "", wrote |-> {}]

\* iterate_in_direction!(self, key): take the cursor; with a node, clone its
\* value, take the link named key, write it back when present and move the
\* cursor to it.  val is the value returned, some is whether it is Some,
\* wrote the link fields of the node that take and the write-back touched.
iterate_in_direction(h, self, key) ==
    LET node == self.node
    IN  IF node # None
        THEN LET new_cell == h[node].value
                 value == h[node][key]
                 h1 == [h EXCEPT ![node][key] = None]
                 h2 == IF value # None
                       THEN [h1 EXCEPT ![node][key] = value]
                       ELSE h1
             IN  [heap |-> h2, self |-> [self EXCEPT !.node = value],
                  some |-> TRUE, val |-> new_cell, wrote |-> {key}]
        ELSE [heap |-> h, self |-> [self EXCEPT !.node = None],
              some |-> FALSE, val |-> "", wrote |-> {}]

\* Iterator::next for NodeIterator: the direction picks the link.
NodeIterator_next(h, self) ==
    IF self.reverse
    THEN iterate_in_direction(h, self, "prev")
    ELSE iterate_in_direction(h, self, "next")

----------------------------------------------------------------------------
(* Debug for Node and for DoublyLinkedList                                 *)

\* A Formatter over a writer whose failAt-th write_str reports an error
\* (failAt = 0: no write fails); buf is the text accepted so far.
Writer(failAt) == [buf |-> "", writes |-> 0, failAt |-> failAt, err |-> FALSE]

\* fmt.write_str(s)
write_str(w, s) ==
    IF w.failAt = w.writes + 1
    THEN [w EXCEPT !.writes = @ + 1, !.err = TRUE]
    ELSE [w EXCEPT !.writes = @ + 1, !.buf = @ \o s]

\* format!("{:?}", value) for a &str without characters to escape.
DebugValue(v) == "\"" \o v \o "\""

RECURSIVE Node_fmt_trailingSep(_, _, _)
\* <Node as Debug>::fmt writing the separator before it looks for a next
\* node, so after the last value too.
Node_fmt_trailingSep(h, self, w) ==
    LET w1 == write_str(w, DebugValue(h[self].value))
    IN  IF w1.err THEN [heap |-> h, w |-> w1, ok |-> FALSE]
        ELSE
        LET w2 == write_str(w1, ",\n    ")
        IN  IF w2.err THEN [heap |-> h, w |-> w2, ok |-> FALSE]
            ELSE
            LET next == h[self].next
                h1 == [h EXCEPT ![self].next = None]
            IN  IF next = None THEN [heap |-> h1, w |-> w2, ok |-> TRUE]
                ELSE
                LET r == Node_fmt_trailingSep(h1, next, w2)
                IN  IF ~r.ok THEN [heap |-> r.heap, w |-> r.w, ok |-> FALSE]
                    ELSE [heap |-> [r.heap EXCEPT ![self].next = next],
                          w |-> r.w, ok |-> TRUE]

RECURSIVE Node_fmt_noRestore(_, _, _)
\* <Node as Debug>::fmt without the write-back of the next link it took.
Node_fmt_noRestore(h, self, w) ==
    LET w1 == write_str(w, DebugValue(h[self].value))
    IN  IF w1.err THEN [heap |-> h, w |-> w1, ok |-> FALSE]
        ELSE
        LET next == h[self].next
            h1 == [h EXCEPT ![self].next = None]
        IN  IF next = None THEN [heap |-> h1, w |-> w1, ok |-> TRUE]
            ELSE
            LET w2 == write_str(w1, ",\n    ")
            IN  IF w2.err THEN [heap |-> h1, w |-> w2, ok |-> FALSE]
                ELSE Node_fmt_noRestore(h1, next, w2)

RECURSIVE Node_fmt(_, _, _)
\* <Node as Debug>::fmt: write the value, take next, and with a next node
\* write the separator, render it and write the link back.  Each `?`
\* returns at once, leaving what was taken dropped.
Node_fmt(h, self, w) ==
    LET w1 == write_str(w, DebugValue(h[self].value))
    IN  IF w1.err THEN [heap |-> h, w |-> w1, ok |-> FALSE]
        ELSE
        LET next == h[self].next
            h1 == [h EXCEPT ![self].next = None]
        IN  IF next = None THEN [heap |-> h1, w |-> w1, ok |-> TRUE]
            ELSE
            LET w2 == write_str(w1, ",\n    ")
            IN  IF w2.err THEN [heap |-> h1, w |-> w2, ok |-> FALSE]
                ELSE
                LET r == Node_fmt(h1, next, w2)
                IN  IF ~r.ok THEN [heap |-> r.heap, w |-> r.w, ok |-> FALSE]
                    ELSE [heap |-> [r.heap EXCEPT ![self].next = next],
                          w |-> r.w, ok |-> TRUE]

\* The last two writes of <DoublyLinkedList as Debug>::fmt, "\n" after the
\* nodes when there is a root and then "}".
List_fmt_close(h, rt, w, hadRoot) ==
    LET w3 == IF hadRoot THEN write_str(w, "\n") ELSE w
    IN  IF w3.err THEN [heap |-> h, root |-> rt, w |-> w3, ok |-> FALSE]
        ELSE LET w4 == write_str(w3, "}")
             IN  [heap |-> h, root |-> rt, w |-> w4, ok |-> ~w4.err]

\* <DoublyLinkedList as Debug>::fmt: the header, then with a root the
\* indentation, the root written back, the node chain; then the closing.
List_fmt(h, rt, w) ==
    LET w1 == write_str(w, "DoublyLinkedList {\n")
    IN  IF w1.err THEN [heap |-> h, root |-> rt, w |-> w1, ok |-> FALSE]
        ELSE
        LET taken == rt
        IN  IF taken = None THEN List_fmt_close(h, None, w1, FALSE)
            ELSE
            LET w2 == write_str(w1, "    ")
            IN  IF w2.err
                THEN [heap |-> h, root |-> None, w |-> w2, ok |-> FALSE]
                ELSE
                LET r == Node_fmt(h, taken, w2)
                IN  IF ~r.ok
                    THEN [heap |-> r.heap, root |-> taken, w |-> r.w,
                          ok |-> FALSE]
                    ELSE List_fmt_close(r.heap, taken, r.w, TRUE)

----------------------------------------------------------------------------
(* The state machine                                                       *)

NoRet == [op |-> "none", arg |-> None, node |-> None, ok |-> TRUE, out |-> ""]

\* No Debug::fmt call in progress.  Of a call in progress: pc names the
\* call it is stopped in, kind is "fmt_list" or "fmt_node", stack holds a
\* frame per <Node as Debug>::fmt call with its `self` and the next it
\* took, rootLocal is the local `root` of the list's fmt, caller the node
\* handle a rendering of a node chain was called on, out the text written;
\* root0 and nodes0 are the root and the nodes reached from it when the
\* call began.
NoRendering ==
    [pc |-> "idle", kind |-> "none", stack |-> <<>>, rootLocal |-> None,
     caller |-> None, out |-> "", root0 |-> None, nodes0 |-> <<>>]

\* The Rc handles the locals of the call in progress hold.
LocalHandles(d) ==
    <<d.rootLocal, d.caller>> \o [k \in 1..Len(d.stack) |-> d.stack[k].next]

\* All the holders of handles outside the heap and the list: the iterators
\* its and the locals of the rendering d.
Holders(its, d) ==
    its \o [k \in 1..Len(LocalHandles(d)) |-> [node |-> LocalHandles(d)[k]]]

\* The list value exists: the macro has run and the list was not dropped.
HasList == built /\ ~dropped.list

Init ==
    /\ input \in Inputs
    /\ built = FALSE
    /\ heap = <<>>
    /\ root = None
    /\ iters = NoIters
    /\ yielded = [i \in Iters |-> <<>>]
    /\ ended = [i \in Iters |-> FALSE]
    /\ ret = NoRet
    /\ rendering = NoRendering
    /\ dropped = [list |-> FALSE, iters |-> {}]

\* let list = doubly_linked_list!(input...)
Construct ==
    /\ ~built
    /\ LET l == doubly_linked_list(input)
       IN  /\ heap' = l.heap
           /\ root' = l.root
    /\ built' = TRUE
    /\ UNCHANGED <<input, iters, yielded, ended, ret, rendering, dropped>>

\* Iterators are numbered in the order they are created.
Fresh(i) == /\ ~iters[i].live
            /\ i \notin dropped.iters
            /\ \A j \in Iters : j < i => (iters[j].live \/ j \in dropped.iters)

\* let it_i = list.iter()
Iter(i) ==
    /\ HasList
    /\ Fresh(i)
    /\ LET r == List_iter(heap, root)
           its == [iters EXCEPT ![i] = r.it]
       IN  /\ root' = r.root
           /\ iters' = its
           /\ heap' = Reclaim(r.heap, r.root, Holders(its, rendering))
    /\ UNCHANGED <<input, built, yielded, ended, ret, rendering, dropped>>

\* let it_i = list.rev_iter()
RevIter(i) ==
    /\ HasList
    /\ Fresh(i)
    /\ LET r == List_rev_iter(heap, root)
           its == [iters EXCEPT ![i] = r.it]
       IN  /\ root' = r.root
           /\ iters' = its
           /\ heap' = Reclaim(r.heap, r.root, Holders(its, rendering))
    /\ UNCHANGED <<input, built, yielded, ended, ret, rendering, dropped>>

\* it_i.next()
IterNext(i) ==
    /\ iters[i].live
    /\ LET r == NodeIterator_next(heap, iters[i])
           its == [iters EXCEPT ![i] = r.self]
       IN  /\ iters' = its
           /\ heap' = Reclaim(r.heap, root, Holders(its, rendering))
           /\ yielded' = IF r.some
                         THEN [yielded EXCEPT ![i] = Append(@, r.val)]
                         ELSE yielded
           /\ ended' = IF r.some THEN ended ELSE [ended EXCEPT ![i] = TRUE]
    /\ UNCHANGED <<input, built, root, ret, rendering, dropped>>

\* Node::last(Rc::clone(&n)) for a live node n; the handle returned is
\* dropped by the caller once looked at.
Last(n) ==
    /\ HasList
    /\ n \in DOMAIN heap
    /\ LET r == Node_last(heap, n)
       IN  /\ heap' = Reclaim(r.heap, root, Holders(iters, rendering))
           /\ ret' = [NoRet EXCEPT !.op = "last", !.arg = n, !.node = r.node]
    /\ UNCHANGED <<input, built, root, iters, yielded, ended, rendering, dropped>>

\* The traversal calls with at most k iterators.
Traverse(k) ==
    \/ \E i \in 1..k : Iter(i)
    \/ \E i \in 1..k : RevIter(i)
    \/ \E i \in 1..k : IterNext(i)

NextIter ==
    \/ Construct
    \/ Traverse(MaxIters)
    \/ \E n \in NodeIds : Last(n)

\* Construction, traversal and Node::last only.
SpecIter == Init /\ [][NextIter]_vars

\* The writes a rendering of MaxLen nodes makes: header, indentation,
\* values, separators, newline, brace.
MaxWrites == 2 * MaxLen + 3

\* A writer failing at a write the rendering never makes is a writer that
\* does not fail: failAt = 0 stands for it.
Reaches(r, failAt) == failAt = 0 \/ ~r.ok

\* What the caller of a rendering r gets: the text with Ok(()), and with
\* Err only the error.
Rendered(r) == IF r.ok THEN r.w.buf ELSE ""

\* write!(out, "{:?}", list) with a writer failing at its failAt-th write.
FmtList(failAt) ==
    /\ HasList
    /\ LET r == List_fmt(heap, root, Writer(failAt))
       IN  /\ Reaches(r, failAt)
           /\ root' = r.root
           /\ heap' = Reclaim(r.heap, r.root, Holders(iters, rendering))
           /\ ret' = [NoRet EXCEPT !.op = "fmt_list", !.ok = r.ok,
                                   !.out = Rendered(r)]
    /\ UNCHANGED <<input, built, iters, yielded, ended, rendering, dropped>>

\* write!(out, "{:?}", n) for a live node n.
FmtNode(n, failAt) ==
    /\ HasList
    /\ n \in DOMAIN heap
    /\ LET r == Node_fmt(heap, n, Writer(failAt))
       IN  /\ Reaches(r, failAt)
           /\ heap' = Reclaim(r.heap, root, Holders(iters, rendering))
           /\ ret' = [NoRet EXCEPT !.op = "fmt_node", !.arg = n,
                                   !.ok = r.ok, !.out = Rendered(r)]
    /\ UNCHANGED <<input, built, root, iters, yielded, ended, rendering, dropped>>

Next ==
    \/ Construct
    \/ Traverse(MaxFmtIters)
    \/ \E n \in NodeIds : Last(n)
    \/ \E f \in 0..MaxWrites : FmtList(f)
    \/ \E n \in NodeIds, f \in 0..MaxWrites : FmtNode(n, f)

\* Construction, traversal, Node::last and Debug rendering.
Spec == Init /\ [][Next]_vars


----------------------------------------------------------------------------
(* What the claims speak of                                                *)

RECURSIVE NodesFrom(_, _)
\* The nodes met walking next from node n, n first.
NodesFrom(h, n) ==
    IF n = None \/ n \notin DOMAIN h THEN <<>>
    ELSE <<n>> \o NodesFrom(h, h[n].next)

\* The values held by the nodes ns, in that order.
ValuesOf(h, ns) == [k \in 1..Len(ns) |-> h[ns[k]].value]

\* The values the list holds: those of the nodes reached from its root.
ListValues == ValuesOf(heap, NodesFrom(heap, root))

Reverse(s) == [k \in 1..Len(s) |-> s[Len(s) + 1 - k]]

IsPrefix(p, s) == Len(p) <= Len(s) /\ SubSeq(s, 1, Len(p)) = p

\* The sequence an iterator is to yield, by its direction.
Traversal(it, fwd) == IF it.reverse THEN Reverse(fwd) ELSE fwd

----------------------------------------------------------------------------
(* Debug rendering call by call: the rendering stops wherever it calls out *)
(* of the list's code, into the writer (write_str) or into the value's own *)
(* Debug (format!), and what it called may use the list before returning.  *)

RECURSIVE RestoreAll(_, _)
\* The frames st, innermost last, each get Ok from `next.fmt(fmt)?`, write
\* their next back and return.
RestoreAll(h, st) ==
    IF Len(st) = 0 THEN h
    ELSE LET f == st[Len(st)]
         IN  RestoreAll([h EXCEPT ![f.self].next = f.next],
                        SubSeq(st, 1, Len(st) - 1))

\* The code run from the return (with Ok) of the call the rendering d is
\* stopped in up to the next call out, or to the end (pc "idle").
Advance(h, rt, d) ==
    CASE d.pc = "w_header" ->
            \* write_str("DoublyLinkedList {\n") returned; self.root.take()
            LET d1 == [d EXCEPT !.out = @ \o "DoublyLinkedList {\n"]
            IN  IF rt = None
                THEN [heap |-> h, root |-> None,
                      d |-> [d1 EXCEPT !.pc = "w_brace"]]
                ELSE [heap |-> h, root |-> None,
                      d |-> [d1 EXCEPT !.pc = "w_indent", !.rootLocal = rt]]
      [] d.pc = "w_indent" ->
            \* write_str("    ") returned; the root is written back and
            \* root.fmt(fmt) begins
            [heap |-> h, root |-> d.rootLocal,
             d |-> [d EXCEPT !.out = @ \o "    ", !.pc = "v_value",
                             !.stack = <<[self |-> d.rootLocal,
                                          next |-> None]>>]]
      [] d.pc = "v_value" ->
            \* format!("{:?}", self.value) returned
            [heap |-> h, root |-> rt, d |-> [d EXCEPT !.pc = "w_value"]]
      [] d.pc = "w_value" ->
            \* write_str of the value returned; self.next.take()
            LET top == d.stack[Len(d.stack)]
                next == h[top.self].next
                h1 == [h EXCEPT ![top.self].next = None]
                d1 == [d EXCEPT !.out = @ \o DebugValue(h[top.self].value)]
            IN  IF next # None
                THEN [heap |-> h1, root |-> rt,
                      d |-> [d1 EXCEPT !.pc = "w_sep",
                                       !.stack[Len(d.stack)].next = next]]
                ELSE [heap |-> RestoreAll(h1, SubSeq(d.stack, 1,
                                                     Len(d.stack) - 1)),
                      root |-> rt,
                      d |-> [d1 EXCEPT !.stack = <<>>,
                                       !.pc = IF d.kind = "fmt_list"
                                              THEN "w_newline" ELSE "idle"]]
      [] d.pc = "w_sep" ->
            \* write_str(",\n    ") returned; next.fmt(fmt) begins
            LET top == d.stack[Len(d.stack)]
            IN  [heap |-> h, root |-> rt,
                 d |-> [d EXCEPT !.out = @ \o ",\n    ", !.pc = "v_value",
                                 !.stack = Append(@, [self |-> top.next,
                                                      next |-> None])]]
      [] d.pc = "w_newline" ->
            \* write_str("\n") returned; the `if let` block ends
            [heap |-> h, root |-> rt,
             d |-> [d EXCEPT !.out = @ \o "\n", !.pc = "w_brace",
                             !.rootLocal = None]]
      [] d.pc = "w_brace" ->
            \* write_str("}") returned; Ok(())
            [heap |-> h, root |-> rt,
             d |-> [d EXCEPT !.out = @ \o "}", !.pc = "idle"]]

\* The calls a rendering stops in that are writes to the formatter.
WritePcs == {"w_header", "w_indent", "w_value", "w_sep", "w_newline",
             "w_brace"}

\* write!(out, "{:?}", list) is called and reaches its first write.
FmtListBegin ==
    /\ HasList
    /\ rendering.pc = "idle"
    /\ rendering' = [NoRendering EXCEPT !.pc = "w_header",
                        !.kind = "fmt_list", !.root0 = root,
                        !.nodes0 = NodesFrom(heap, root)]
    /\ UNCHANGED <<input, built, heap, root, iters, yielded, ended, ret,
                   dropped>>

\* write!(out, "{:?}", n) is called on a live node n and reaches the
\* rendering of the value.
FmtNodeBegin(n) ==
    /\ HasList
    /\ rendering.pc = "idle"
    /\ n \in DOMAIN heap
    /\ rendering' = [NoRendering EXCEPT !.pc = "v_value",
                        !.kind = "fmt_node", !.caller = n,
                        !.stack = <<[self |-> n, next |-> None]>>,
                        !.root0 = root, !.nodes0 = NodesFrom(heap, root)]
    /\ UNCHANGED <<input, built, heap, root, iters, yielded, ended, ret,
                   dropped>>

\* The call the rendering is stopped in returns Ok and the rendering runs
\* on to its next call out, or returns Ok(()).
FmtReturn ==
    /\ rendering.pc # "idle"
    /\ LET r == Advance(heap, root, rendering)
           d == IF r.d.pc = "idle" THEN NoRendering ELSE r.d
       IN  /\ root' = r.root
           /\ rendering' = d
           /\ heap' = Reclaim(r.heap, r.root, Holders(iters, d))
           /\ ret' = IF r.d.pc = "idle"
                     THEN [NoRet EXCEPT !.op = r.d.kind, !.arg = r.d.caller,
                                        !.out = r.d.out]
                     ELSE ret
    /\ UNCHANGED <<input, built, iters, yielded, ended, dropped>>

\* The write the rendering is stopped in returns Err: every `?` on the way
\* up returns it, and the locals are dropped with what they had taken.
FmtError ==
    /\ rendering.pc \in WritePcs
    /\ rendering' = NoRendering
    /\ heap' = Reclaim(heap, root, Holders(iters, NoRendering))
    /\ ret' = [NoRet EXCEPT !.op = rendering.kind, !.arg = rendering.caller,
                            !.ok = FALSE]
    /\ UNCHANGED <<input, built, root, iters, yielded, ended, dropped>>

\* While a rendering is stopped in a call, that call may traverse the list,
\* call Node::last or render the list again before it returns.
NextSteps ==
    \/ Construct
    \/ Traverse(MaxFmtIters)
    \/ \E n \in NodeIds : Last(n)
    \/ FmtList(0)
    \/ FmtListBegin
    \/ \E n \in NodeIds : FmtNodeBegin(n)
    \/ FmtReturn
    \/ FmtError

\* Construction, traversal, Node::last and Debug rendering call by call.
SpecSteps == Init /\ [][NextSteps]_vars

----------------------------------------------------------------------------
(* Dropping the list and the iterators                                     *)

\* drop(list): the handle in DoublyLinkedList.root is dropped with it.
DropList ==
    /\ HasList
    /\ rendering.pc = "idle"
    /\ dropped' = [dropped EXCEPT !.list = TRUE]
    /\ root' = None
    /\ heap' = Reclaim(heap, None, Holders(iters, rendering))
    /\ UNCHANGED <<input, built, iters, yielded, ended, ret, rendering>>

\* drop(it_i): the handle in NodeIterator.node is dropped with it.
DropIter(i) ==
    /\ iters[i].live
    /\ LET its == [iters EXCEPT ![i].live = FALSE, ![i].node = None]
       IN  /\ iters' = its
           /\ heap' = Reclaim(heap, root, Holders(its, rendering))
    /\ dropped' = [dropped EXCEPT !.iters = @ \cup {i}]
    /\ UNCHANGED <<input, built, root, yielded, ended, ret, rendering>>

NextDrop ==
    \/ Construct
    \/ Traverse(MaxIters)
    \/ DropList
    \/ \E i \in Iters : DropIter(i)

\* Construction, traversal and the dropping of the list and of iterators.
SpecDrop == Init /\ [][NextDrop]_vars

----------------------------------------------------------------------------
(* C1..C3: the list the macro builds                                       *)

\* C1: the list built from S and traversed with iter() yields exactly S in
\* order: every forward iterator has yielded a prefix of S, and all of S
\* once next has returned None.
C1_IterYieldsInput ==
    \A i \in Iters :
        (iters[i].live /\ ~iters[i].reverse) =>
            /\ IsPrefix(yielded[i], input)
            /\ ended[i] => yielded[i] = input

\* C2: the list built from S and traversed with rev_iter() yields exactly S
\* reversed: every reverse iterator has yielded a prefix of the reverse of
\* S, and all of it once next has returned None.
C2_RevIterYieldsReversed ==
    \A i \in Iters :
        (iters[i].live /\ iters[i].reverse) =>
            /\ IsPrefix(yielded[i], Reverse(input))
            /\ ended[i] => yielded[i] = Reverse(input)

\* C3: the list the macro builds from a sequence of length >= 1 has as its
\* root the node holding the first value (the macro takes no empty
\* sequence, so a built list always has a root).
C3_RootIsFirst ==
    built =>
        /\ root # None
        /\ root \in DOMAIN heap
        /\ heap[root].value = input[1]
        /\ heap[root].prev = None

----------------------------------------------------------------------------
(* C4..C8: traversal                                                       *)

\* C4: traversal is restartable: any two iterators of the same direction
\* that were run to exhaustion, whatever calls came between, yielded the
\* same sequence.
C4_Restartable ==
    \A i, j \in Iters :
        (/\ iters[i].live /\ iters[j].live
         /\ iters[i].reverse = iters[j].reverse
         /\ ended[i] /\ ended[j]) => yielded[i] = yielded[j]

\* Three traversals run to the end, forward, reverse and forward again,
\* over a list of three nodes.
C4_Witness ==
    /\ Len(ListValues) = 3
    /\ \A i \in 1..3 : iters[i].live /\ ended[i] /\ Len(yielded[i]) = 3
    /\ ~iters[1].reverse /\ iters[2].reverse /\ ~iters[3].reverse

\* C5: iterators live at the same time are independent: under every
\* interleaving each one has yielded a prefix of the list's values in its
\* own direction, its cursor is at the node that follows what it yielded,
\* and it has yielded all of them once it is exhausted.
C5_Independent ==
    \A i \in Iters :
        iters[i].live =>
            LET nodes == Traversal(iters[i], NodesFrom(heap, root))
                want == ValuesOf(heap, nodes)
                n == Len(yielded[i])
            IN  /\ IsPrefix(yielded[i], want)
                /\ iters[i].node = IF n < Len(nodes) THEN nodes[n + 1] ELSE None
                /\ ended[i] => yielded[i] = want

\* A forward and a reverse iterator both in the middle of a list of three
\* nodes, at different distances, next to one already exhausted.
C5_Witness ==
    /\ Len(ListValues) = 3
    /\ iters[1].live /\ ~iters[1].reverse /\ Len(yielded[1]) = 1 /\ ~ended[1]
    /\ iters[2].live /\ iters[2].reverse /\ Len(yielded[2]) = 2 /\ ~ended[2]
    /\ iters[3].live /\ ended[3] /\ Len(yielded[3]) = 3

\* C6: exhaustion is terminal: once next has returned None on an iterator
\* its cursor is empty, and no later step brings back a cursor or adds a
\* yielded value.
C6_ExhaustedIsTerminal ==
    [][\A i \in Iters :
          ended[i] => /\ iters[i].node = None
                      /\ iters'[i].node = None
                      /\ ended'[i]
                      /\ yielded'[i] = yielded[i]]_vars

\* A forward and a reverse iterator both exhausted after a full traversal,
\* while a third is still being stepped.
C6_Witness ==
    /\ iters[1].live /\ ended[1] /\ Len(yielded[1]) = 3
    /\ iters[2].live /\ ended[2] /\ Len(yielded[2]) = 3
    /\ iters[1].reverse # iters[2].reverse
    /\ iters[3].live /\ ~ended[3] /\ Len(yielded[3]) = 2

\* C7: Node::last applied to the root of the list built from S returns the
\* node holding the last element of S, and applied to a node without a
\* next link returns that node.
C7_LastIsTail ==
    (ret.op = "last" /\ ret.arg \in DOMAIN heap) =>
        /\ ret.arg = root =>
              /\ ret.node \in DOMAIN heap
              /\ heap[ret.node].value = input[Len(input)]
        /\ heap[ret.arg].next = None => ret.node = ret.arg

\* Node::last was applied to the root of a list of three nodes.
C7_Witness ==
    /\ ret.op = "last"
    /\ ret.arg = root
    /\ Len(NodesFrom(heap, root)) = 3
    /\ ret.node # root

\* C8: on a list without a root, iter() and rev_iter() leave the root
\* absent and return an iterator with an empty cursor, and the first next
\* on such an iterator returns None and yields nothing.
C8_EmptyList ==
    [][\A i \in Iters :
          /\ (root = None /\ (Iter(i) \/ RevIter(i))) =>
                (root' = None /\ iters'[i].live /\ iters'[i].node = None)
          /\ (root = None /\ iters[i].live /\ yielded[i] = <<>> /\ IterNext(i)) =>
                (ended'[i] /\ yielded'[i] = <<>>)]_vars

\* A forward and a reverse iterator made on a rootless list, each stepped
\* once.
C8_Witness ==
    /\ built /\ root = None
    /\ iters[1].live /\ ~iters[1].reverse /\ ended[1] /\ yielded[1] = <<>>
    /\ iters[2].live /\ iters[2].reverse /\ ended[2] /\ yielded[2] = <<>>

----------------------------------------------------------------------------
(* C9, C10: Debug rendering and the links                                  *)

RECURSIVE Joined(_)
\* The renderings of the values vs separated by ",\n    ".
Joined(vs) ==
    IF Len(vs) = 0 THEN ""
    ELSE IF Len(vs) = 1 THEN DebugValue(vs[1])
    ELSE DebugValue(vs[1]) \o ",\n    " \o Joined(Tail(vs))

\* The rendering claimed for a list holding the values vs.
ListText(vs) ==
    IF Len(vs) = 0 THEN "DoublyLinkedList {\n" \o "}"
    ELSE "DoublyLinkedList {\n" \o "    " \o Joined(vs) \o "\n}"

\* C9: a rendering that returns Ok gives, for a list holding v1..vn, the
\* header, four spaces, the values' renderings in list order separated by
\* ",\n    ", and "\n}" (header and "}" alone for no values); for a node
\* chain, the separated values alone.
C9_Rendering ==
    [][/\ (ret'.op = "fmt_list" /\ ret'.ok) =>
             ret'.out = ListText(ListValues)
       /\ (ret'.op = "fmt_node" /\ ret'.ok /\ ret'.arg \in DOMAIN heap) =>
             ret'.out = Joined(ValuesOf(heap, NodesFrom(heap, ret'.arg)))]_vars

\* A list of three values was rendered without error.
C9_Witness ==
    /\ ret.op = "fmt_list" /\ ret.ok
    /\ Len(ListValues) = 3
    /\ ret.out = "DoublyLinkedList {\n    \"a\",\n    \"b\",\n    \"c\"\n}"

\* C10: after construction and after every completed call, each two
\* adjacent nodes A, B of the list built (the k-th and the k+1-th) are
\* linked both ways, the head has no prev and the tail has no next.
C10_LinksConsistent ==
    (built /\ Len(input) >= 2) =>
        /\ \A k \in 1..Len(input) : k \in DOMAIN heap
        /\ \A k \in 1..(Len(input) - 1) :
              heap[k].next = k + 1 /\ heap[k + 1].prev = k
        /\ heap[1].prev = None
        /\ heap[Len(input)].next = None

----------------------------------------------------------------------------
(* C11..C13: what the calls leave alone                                    *)

\* The link an iterator follows.
OwnKey(it) == IF it.reverse THEN "prev" ELSE "next"

\* C11: a call to next changes only that iterator's cursor: the nodes
\* (prev, next, value), the root and the other iterators are as before, and
\* the call writes no link field but the one of its own direction.
C11_NextFrame ==
    [][\A i \in Iters :
          IterNext(i) =>
              /\ heap' = heap
              /\ root' = root
              /\ iters'[i].reverse = iters[i].reverse
              /\ \A j \in Iters \ {i} :
                    iters'[j] = iters[j] /\ yielded'[j] = yielded[j]
              /\ NodeIterator_next(heap, iters[i]).wrote \subseteq
                    {OwnKey(iters[i])}]_vars

\* A reverse and a forward iterator have each stepped twice over a list of
\* three nodes and a third iterator has not moved.
C11_Witness ==
    /\ Len(ListValues) = 3
    /\ iters[1].live /\ iters[1].reverse /\ Len(yielded[1]) = 2
    /\ iters[2].live /\ ~iters[2].reverse /\ Len(yielded[2]) = 2
    /\ iters[3].live /\ yielded[3] = <<>> /\ iters[3].node # None

\* C12: iter() and rev_iter() leave the list as they found it: the root
\* and every node's prev and next are the same when the call returns,
\* the next links Node::last took on its walk included.
C12_IterFrame ==
    [][\A i \in Iters :
          (Iter(i) \/ RevIter(i)) => (root' = root /\ heap' = heap)]_vars

\* rev_iter() has just run over a list of three nodes: its iterator sits
\* on the tail and the chain from the root is whole.
C12_Witness ==
    /\ root = 1
    /\ NodesFrom(heap, root) = <<1, 2, 3>>
    /\ iters[1].live /\ iters[1].reverse /\ iters[1].node = 3
    /\ yielded[1] = <<>>

\* C13: a rendering of the list or of a node chain that returns Ok leaves
\* the root and every node's prev and next as they were, and so the values
\* a traversal from the root meets (no step is both such a rendering and a
\* change of any of them).
C13_FmtFrame ==
    [][\/ (root' = root /\ heap' = heap /\ ListValues' = ListValues)
       \/ ~(ret'.ok /\ (FmtList(0) \/ \E n \in NodeIds : FmtNode(n, 0)))]_vars

\* A list of three nodes was traversed to the end and then rendered
\* without error.
C13_Witness ==
    /\ ret.op = "fmt_list" /\ ret.ok
    /\ NodesFrom(heap, root) = <<1, 2, 3>>
    /\ iters[1].live /\ ended[1] /\ Len(yielded[1]) = 3

----------------------------------------------------------------------------
(* C14: a rendering whose writer fails                                     *)

\* C14: when a write of the rendering fails, the rendering returns the
\* error and the root and every node's next link are as before the call.
C14_FmtErrorFrame ==
    [][\A f \in 1..MaxWrites :
          (FmtList(f) \/ \E n \in NodeIds : FmtNode(n, f)) =>
              /\ ~ret'.ok
              /\ root' = root
              /\ \A n \in DOMAIN heap :
                    n \in DOMAIN heap' /\ heap'[n].next = heap[n].next]_vars

----------------------------------------------------------------------------
(* C15: what a rendering in progress exposes                               *)

\* C15: wherever a rendering has called out of the list's code, the list's
\* root is present as when the rendering began and walking next from it
\* reaches every node it reached then.
C15_NoMissingLink ==
    rendering.pc # "idle" =>
        /\ root = rendering.root0
        /\ NodesFrom(heap, root) = rendering.nodes0

----------------------------------------------------------------------------
(* C16: reclaiming the nodes                                               *)

\* C16: once the list and every iterator over it have been dropped, every
\* node created for the list has been freed: none is kept alive by the
\* prev and next links of its neighbours alone.
C16_AllReclaimed ==
    (dropped.list /\ \A i \in Iters : ~iters[i].live) =>
        DOMAIN heap = {}

====
